---- MODULE Spec2Model ----
(***************************************************************************)
(* Indexed binary max-heap of trapper_keeper (src/src/heap.rs): a Vec of   *)
(* items, each with a key and an id, and a HashMap from id to the item's   *)
(* position in the Vec.  Positions are zero-based as in the source; the    *)
(* TLA+ sequence that models the Vec is one-based, so position p of the    *)
(* Vec is element p + 1 of the sequence.                                   *)
(***************************************************************************)
EXTENDS Integers, Sequences, FiniteSets

VARIABLES heap, index_map, handle, panicked, last, input, out, pc

vars == <<heap, index_map, handle, panicked, last, input, out, pc>>

\* Bounds of the model.
MaxLen == 5
MaxId == 5
MaxKey == 1
MaxSort == 10
MaxHeapify == 5
MaxSift == 6
MaxSiftKey == 2

Ids == 1..MaxId
Keys == 0..MaxKey

\* An item is any value with a key and an id (trait HeapItem).
Items == [id : Ids, key : Keys]

Key(item) == item.key

Id(item) == item.id

\* Option<T>
None == [some |-> FALSE]

Some(x) == [some |-> TRUE, val |-> x]

\* HashMap<Id, usize> as a function from the ids present to positions.
EmptyMap == [k \in {} |-> 0]

MapInsert(m, k, p) == [x \in DOMAIN m \cup {k} |-> IF x = k THEN p ELSE m[x]]

MapRemove(m, k) == [x \in DOMAIN m \ {k} |-> m[x]]

\* Vec<T> indexing and swap at zero-based positions.
At(h, p) == h[p + 1]

\* swap that copies the item at b over the item at a and leaves b as it was.
swap_overwrite(h, a, b) == [h EXCEPT ![a + 1] = h[b + 1]]

Swap(h, a, b) == [h EXCEPT ![a + 1] = h[b + 1], ![b + 1] = h[a + 1]]

\* HeapViewMut { index, heap, index_map }; panicked records an unwrap on None
\* or an index out of bounds, after which the call does nothing more.
View(ix, h, m) == [index |-> ix, heap |-> h, index_map |-> m, panicked |-> FALSE]

Panic(v) == [v EXCEPT !.panicked = TRUE]

parent(index) == IF index = 0 THEN None ELSE Some(index \div 2)

left_index(v) ==
    LET index == 2 * v.index + 1
    IN  IF index < Len(v.heap) THEN Some(index) ELSE None

right_index(v) ==
    LET index == 2 * v.index + 2
    IN  IF index < Len(v.heap) THEN Some(index) ELSE None

\* transpose that leaves the entry of the item at dest as it was.
transpose_one_entry(v, dest) ==
    LET id1 == Id(At(v.heap, v.index))
    IN  IF v.panicked THEN v
        ELSE IF id1 \notin DOMAIN v.index_map THEN Panic(v)
        ELSE [index |-> dest,
              heap |-> Swap(v.heap, v.index, dest),
              index_map |-> [v.index_map EXCEPT ![id1] = dest],
              panicked |-> FALSE]

\* transpose that leaves the cursor where it was.
transpose_keeps_cursor(v, dest) ==
    LET id1 == Id(At(v.heap, v.index))
        id2 == Id(At(v.heap, dest))
        m1 == [v.index_map EXCEPT ![id1] = dest]
        m2 == [m1 EXCEPT ![id2] = v.index]
    IN  IF v.panicked THEN v
        ELSE IF id1 \notin DOMAIN v.index_map THEN Panic(v)
        ELSE IF id2 \notin DOMAIN v.index_map
        THEN Panic([v EXCEPT !.index_map = m1])
        ELSE [index |-> v.index,
              heap |-> Swap(v.heap, v.index, dest),
              index_map |-> m2,
              panicked |-> FALSE]

transpose(v, dest) ==
    LET id1 == Id(At(v.heap, v.index))
        id2 == Id(At(v.heap, dest))
        m1 == [v.index_map EXCEPT ![id1] = dest]
        m2 == [m1 EXCEPT ![id2] = v.index]
    IN  IF v.panicked THEN v
        ELSE IF id1 \notin DOMAIN v.index_map THEN Panic(v)
        ELSE IF id2 \notin DOMAIN v.index_map
        THEN Panic([v EXCEPT !.index_map = m1])
        ELSE [index |-> dest,
              heap |-> Swap(v.heap, v.index, dest),
              index_map |-> m2,
              panicked |-> FALSE]

RECURSIVE sift_up(_)
sift_up(v) ==
    LET p == parent(v.index)
    IN  IF v.panicked \/ ~p.some THEN v
        ELSE IF Key(At(v.heap, p.val)) < Key(At(v.heap, v.index))
        THEN sift_up(transpose(v, p.val))
        ELSE v

\* sift_down that takes the left child whenever there are two children.
RECURSIVE sift_down_left(_)
sift_down_left(v) ==
    LET l == left_index(v)
        r == right_index(v)
    IN  IF v.panicked THEN v
        ELSE IF ~l.some /\ ~r.some THEN v
        ELSE LET index == IF l.some THEN l.val ELSE r.val
             IN  IF Key(At(v.heap, v.index)) < Key(At(v.heap, index))
                 THEN sift_down_left(transpose(v, index))
                 ELSE v

RECURSIVE sift_down(_)
sift_down(v) ==
    LET l == left_index(v)
        r == right_index(v)
    IN  IF v.panicked THEN v
        ELSE IF ~l.some /\ ~r.some THEN v
        ELSE IF l.some /\ r.some
        THEN LET max == IF Key(At(v.heap, l.val)) > Key(At(v.heap, r.val))
                        THEN l.val ELSE r.val
             IN  IF Key(At(v.heap, v.index)) < Key(At(v.heap, max))
                 THEN sift_down(transpose(v, max))
                 ELSE v
        ELSE LET index == IF l.some THEN l.val ELSE r.val
             IN  IF Key(At(v.heap, v.index)) < Key(At(v.heap, index))
                 THEN sift_down(transpose(v, index))
                 ELSE v

\* items.iter().enumerate().map(|(i, val)| (val.id(), i)).collect(): a later
\* item with the same id replaces the earlier entry.
CollectMap(items) ==
    [k \in {Id(items[i]) : i \in DOMAIN items} |->
        CHOOSE p \in 0..(Len(items) - 1) :
            /\ Id(At(items, p)) = k
            /\ \A q \in 0..(Len(items) - 1) : Id(At(items, q)) = k => q <= p]

\* for ix in (0..(item_count >> 1)).rev() { view.index = ix; view.sift_down() }
RECURSIVE HeapifyLoop(_, _)
HeapifyLoop(v, ix) ==
    IF ix < 0 THEN v
    ELSE HeapifyLoop(sift_down([v EXCEPT !.index = ix]), ix - 1)

\* heapify that starts one position below the last parent.
heapify_short(items) ==
    HeapifyLoop(View(0, items, CollectMap(items)), (Len(items) \div 2) - 2)

heapify(items) ==
    HeapifyLoop(View(0, items, CollectMap(items)), (Len(items) \div 2) - 1)

len(h) == Len(h)

is_empty(h) == Len(h) = 0

push(h, m, value) ==
    sift_up(View(Len(h), Append(h, value), MapInsert(m, Id(value), Len(h))))

\* pop without the emptiness check: len() - 1 underflows on an empty heap.
pop_unchecked(h, m) ==
    IF is_empty(h) THEN [view |-> Panic(View(0, h, m)), ret |-> None]
    ELSE LET last_index == Len(h) - 1
             t == transpose(View(0, h, m), last_index)
             result == At(t.heap, last_index)
             cut == [t EXCEPT !.heap = SubSeq(t.heap, 1, last_index),
                              !.index_map = MapRemove(t.index_map, Id(result)),
                              !.index = 0]
         IN  IF t.panicked THEN [view |-> t, ret |-> None]
             ELSE LET s == sift_down(cut)
                  IN  [view |-> s,
                       ret |-> IF s.panicked THEN None ELSE Some(result)]

\* pop that leaves the entry of the returned item in the index map.
pop_keeps_entry(h, m) ==
    IF is_empty(h) THEN [view |-> View(0, h, m), ret |-> None]
    ELSE LET last_index == Len(h) - 1
             t == transpose(View(0, h, m), last_index)
             result == At(t.heap, last_index)
             cut == [t EXCEPT !.heap = SubSeq(t.heap, 1, last_index),
                              !.index = 0]
         IN  IF t.panicked THEN [view |-> t, ret |-> None]
             ELSE LET s == sift_down(cut)
                  IN  [view |-> s,
                       ret |-> IF s.panicked THEN None ELSE Some(result)]

\* pop that does not sift the new root down.
pop_no_sift(h, m) ==
    IF is_empty(h) THEN [view |-> View(0, h, m), ret |-> None]
    ELSE LET last_index == Len(h) - 1
             t == transpose(View(0, h, m), last_index)
             result == At(t.heap, last_index)
             cut == [t EXCEPT !.heap = SubSeq(t.heap, 1, last_index),
                              !.index_map = MapRemove(t.index_map, Id(result)),
                              !.index = 0]
         IN  IF t.panicked THEN [view |-> t, ret |-> None]
             ELSE [view |-> cut, ret |-> Some(result)]

\* pop: the view after the call and the value returned.  A panic, in the
\* first transpose or in the sift_down after the removal, unwinds out of pop:
\* nothing is returned.
pop(h, m) ==
    IF is_empty(h) THEN [view |-> View(0, h, m), ret |-> None]
    ELSE LET last_index == Len(h) - 1
             t == transpose(View(0, h, m), last_index)
             result == At(t.heap, last_index)
             cut == [t EXCEPT !.heap = SubSeq(t.heap, 1, last_index),
                              !.index_map = MapRemove(t.index_map, Id(result)),
                              !.index = 0]
         IN  IF t.panicked THEN [view |-> t, ret |-> None]
             ELSE LET s == sift_down(cut)
                  IN  [view |-> s,
                       ret |-> IF s.panicked THEN None ELSE Some(result)]

\* self.heap[index] with index taken from the map panics when the position is
\* out of bounds.
lookup_panics(h, m, id) == id \in DOMAIN m /\ m[id] >= Len(h)

\* get_mut: the handle (view position, original key, original id), if any.
get_mut(h, m, id) ==
    IF id \notin DOMAIN m THEN None
    ELSE LET index == m[id]
         IN  Some([index |-> index,
                   original_key |-> Key(At(h, index)),
                   original_id |-> Id(At(h, index))])

\* get that reads the root instead of the mapped position.
get_root(h, m, id) ==
    IF id \notin DOMAIN m THEN None ELSE Some(At(h, 0))

get(h, m, id) ==
    IF id \notin DOMAIN m THEN None ELSE Some(At(h, m[id]))

\* DerefMut for HeapItemRefMut: the holder writes the item in place.
deref_mut_write(h, hd, item) == [h EXCEPT ![hd.index + 1] = item]

\* drop that only sifts down.
drop_no_sift_up(h, m, hd, debug) ==
    LET v == View(hd.index, h, m)
        new_id == Id(At(h, hd.index))
        new_key == Key(At(h, hd.index))
    IN  IF hd.original_id \notin DOMAIN m THEN Panic(v)
        ELSE LET old_index == m[hd.original_id]
                 m2 == MapInsert(MapRemove(m, hd.original_id), new_id, old_index)
                 v2 == [v EXCEPT !.index_map = m2]
             IN  IF debug /\ old_index # hd.index
                 THEN Panic([v EXCEPT !.index_map = MapRemove(m, hd.original_id)])
                 ELSE IF hd.original_key > new_key THEN sift_down(v2)
                 ELSE v2

\* drop that leaves the index map keyed by the original id.
drop_no_rekey(h, m, hd, debug) ==
    LET v == View(hd.index, h, m)
        new_key == Key(At(h, hd.index))
    IN  IF hd.original_id \notin DOMAIN m THEN Panic(v)
        ELSE LET old_index == m[hd.original_id]
             IN  IF debug /\ old_index # hd.index
                 THEN Panic([v EXCEPT !.index_map = MapRemove(m, hd.original_id)])
                 ELSE IF hd.original_key > new_key THEN sift_down(v)
                 ELSE IF hd.original_key < new_key THEN sift_up(v)
                 ELSE v

\* Drop for HeapItemRefMut.  debug is TRUE in a build with debug assertions.
drop(h, m, hd, debug) ==
    LET v == View(hd.index, h, m)
        new_id == Id(At(h, hd.index))
        new_key == Key(At(h, hd.index))
    IN  IF hd.original_id \notin DOMAIN m THEN Panic(v)
        ELSE LET old_index == m[hd.original_id]
                 m2 == MapInsert(MapRemove(m, hd.original_id), new_id, old_index)
                 v2 == [v EXCEPT !.index_map = m2]
             IN  IF debug /\ old_index # hd.index
                 THEN Panic([v EXCEPT !.index_map = MapRemove(m, hd.original_id)])
                 ELSE IF hd.original_key > new_key THEN sift_down(v2)
                 ELSE IF hd.original_key < new_key THEN sift_up(v2)
                 ELSE v2

-----------------------------------------------------------------------------
\* Inputs of the model.

Range(s) == {s[i] : i \in DOMAIN s}

\* Collections handed to heapify: items with pairwise distinct ids.
Injective(f) == \A i, j \in DOMAIN f : i # j => f[i] # f[j]

HeapifyInputs ==
    UNION {{[i \in 1..k |-> [id |-> ids[i], key |-> ks[i]]] :
                ids \in {f \in [1..k -> Ids] : Injective(f)}, ks \in [1..k -> Keys]} :
           k \in 0..MaxHeapify}

\* Sequences pushed one at a time: the k-th item has id k and any key.
SortInputs ==
    UNION {{[i \in 1..k |-> [id |-> i, key |-> ks[i]]] : ks \in [1..k -> Keys]} :
           k \in 0..MaxSort}
    \cup {<<x>> : x \in Items}

IdsPresent(h) == {Id(h[i]) : i \in DOMAIN h}

NoHandle == handle = None

\* The record of a call: its name, argument and result, and whether
\* is_empty() held when it was made.
Call(op, arg, ret) ==
    [op |-> op, arg |-> arg, ret |-> ret, was_empty |-> is_empty(heap)]

Built == [op |-> "heapify", arg |-> None, ret |-> None, was_empty |-> FALSE]

-----------------------------------------------------------------------------
\* The heap under its contract: ids are unique, and while a handle is
\* outstanding nothing but the handle touches the heap (the borrow of
\* get_mut).  A panic ends the run.

Install(v) ==
    /\ heap' = v.heap
    /\ index_map' = v.index_map
    /\ panicked' = v.panicked

Init ==
    /\ \E items \in HeapifyInputs : LET v == heapify(items) IN
          /\ heap = v.heap
          /\ index_map = v.index_map
          /\ panicked = v.panicked
    /\ handle = None
    /\ last = Built
    /\ input = << >>
    /\ out = << >>
    /\ pc = "free"

Push(value) ==
    /\ pc = "free" /\ ~panicked /\ NoHandle
    /\ len(heap) < MaxLen
    /\ Id(value) \notin IdsPresent(heap)
    /\ Install(push(heap, index_map, value))
    /\ last' = Call("push", Some(value), None)
    /\ UNCHANGED <<handle, input, out, pc>>

Pop ==
    /\ pc = "free" /\ ~panicked /\ NoHandle
    /\ LET r == pop(heap, index_map) IN
          /\ Install(r.view)
          /\ last' = Call("pop", None, r.ret)
    /\ UNCHANGED <<handle, input, out, pc>>

Get(id) ==
    /\ pc = "free" /\ ~panicked /\ NoHandle
    /\ IF lookup_panics(heap, index_map, id)
       THEN /\ panicked' = TRUE
            /\ last' = Call("get", Some(id), None)
       ELSE /\ panicked' = FALSE
            /\ last' = Call("get", Some(id), get(heap, index_map, id))
    /\ UNCHANGED <<heap, index_map, handle, input, out, pc>>

GetMut(id) ==
    /\ pc \in {"free", "built"} /\ ~panicked /\ NoHandle
    /\ IF lookup_panics(heap, index_map, id)
       THEN /\ panicked' = TRUE
            /\ handle' = None
       ELSE /\ panicked' = FALSE
            /\ handle' = get_mut(heap, index_map, id)
    /\ last' = Call("get_mut", Some(id), None)
    /\ UNCHANGED <<heap, index_map, input, out, pc>>

\* The holder of the handle replaces the item; the new id is not the id of
\* another element.
Rewrite(item) ==
    /\ pc \in {"free", "built"} /\ ~panicked /\ handle.some
    /\ \A p \in 0..(Len(heap) - 1) :
          p # handle.val.index => Id(At(heap, p)) # Id(item)
    /\ heap' = deref_mut_write(heap, handle.val, item)
    /\ last' = Call("rewrite", Some(item), None)
    /\ UNCHANGED <<index_map, handle, panicked, input, out, pc>>

\* The handle goes out of scope.  The record keeps the handle and the item
\* as the holder left it.
Release ==
    /\ pc \in {"free", "built"} /\ ~panicked /\ handle.some
    /\ \E debug \in BOOLEAN : Install(drop(heap, index_map, handle.val, debug))
    /\ handle' = None
    /\ last' = Call("release", handle, Some(At(heap, handle.val.index)))
    /\ pc' = IF pc = "built" THEN "released" ELSE pc
    /\ UNCHANGED <<input, out>>

Next ==
    \/ \E value \in Items : Push(value)
    \/ Pop
    \/ \E id \in Ids : Get(id)
    \/ \E id \in Ids : GetMut(id)
    \/ \E item \in Items : Rewrite(item)
    \/ Release

Spec == Init /\ [][Next]_vars

-----------------------------------------------------------------------------
\* heapify, then pop until pop returns nothing (tests::pops).

PopNext ==
    /\ pc = "popping" /\ ~panicked
    /\ LET r == pop(heap, index_map) IN
          /\ Install(r.view)
          /\ out' = IF r.ret.some THEN Append(out, r.ret.val) ELSE out
          /\ pc' = IF r.ret.some \/ r.view.panicked THEN "popping" ELSE "done"
    /\ UNCHANGED <<handle, last, input>>

InitPops ==
    /\ input \in HeapifyInputs
    /\ LET v == heapify(input) IN
          /\ heap = v.heap
          /\ index_map = v.index_map
          /\ panicked = v.panicked
    /\ handle = None
    /\ last = Built
    /\ out = << >>
    /\ pc = "popping"

SpecPops == InitPops /\ [][PopNext]_vars

-----------------------------------------------------------------------------
\* heapify, then one scoped mutation: get_mut, writes through the handle,
\* release (tests::test_invariants_restored).

InitMutate ==
    /\ input \in HeapifyInputs
    /\ LET v == heapify(input) IN
          /\ heap = v.heap
          /\ index_map = v.index_map
          /\ panicked = v.panicked
    /\ handle = None
    /\ last = Built
    /\ out = << >>
    /\ pc = "built"

\* The items a handle may write: any key, and any id of Ids or one more, so
\* that the id can change even when the heap holds every id of Ids.
MutateItems == [id : 1..(MaxId + 1), key : Keys]

NextMutate ==
    \/ \E id \in Ids : GetMut(id)
    \/ \E item \in MutateItems : Rewrite(item)
    \/ Release

SpecMutate == InitMutate /\ [][NextMutate]_vars

-----------------------------------------------------------------------------
\* heapify, then one scoped mutation in which the holder may write any id,
\* the id of another element included.

Write(item) ==
    /\ pc = "built" /\ ~panicked /\ handle.some
    /\ heap' = deref_mut_write(heap, handle.val, item)
    /\ last' = Call("write", Some(item), None)
    /\ UNCHANGED <<index_map, handle, panicked, input, out, pc>>

NextCollide ==
    \/ \E id \in Ids : GetMut(id)
    \/ \E item \in Items : Write(item)
    \/ Release

SpecCollide == InitMutate /\ [][NextCollide]_vars

-----------------------------------------------------------------------------
\* Push the input one item at a time into an empty heap, then pop until pop
\* returns nothing (tests::heap_sort).

PushNext ==
    /\ pc = "pushing" /\ ~panicked
    /\ LET k == len(heap) IN
          /\ Install(push(heap, index_map, input[k + 1]))
          /\ pc' = IF k + 1 = Len(input) THEN "popping" ELSE "pushing"
    /\ UNCHANGED <<handle, last, input, out>>

InitSort ==
    /\ input \in SortInputs
    /\ LET v == heapify(<< >>) IN
          /\ heap = v.heap
          /\ index_map = v.index_map
          /\ panicked = v.panicked
    /\ handle = None
    /\ last = Built
    /\ out = << >>
    /\ pc = IF input = << >> THEN "popping" ELSE "pushing"

NextSort == PushNext \/ PopNext

SpecSort == InitSort /\ [][NextSort]_vars

-----------------------------------------------------------------------------
\* push of an item whose id is already in the heap, outside the contract of
\* push.  The run is followed up to the return of that call.

PushDup(value) ==
    /\ pc = "free" /\ ~panicked /\ NoHandle
    /\ len(heap) < MaxLen
    /\ Id(value) \in IdsPresent(heap)
    /\ Install(push(heap, index_map, value))
    /\ last' = Call("push_dup", Some(value), None)
    /\ pc' = "misused"
    /\ UNCHANGED <<handle, input, out>>

NextDup == Next \/ \E value \in Items : PushDup(value)

SpecDup == Init /\ [][NextDup]_vars

-----------------------------------------------------------------------------
\* The private methods of HeapViewMut, one step at a time: a view (cursor,
\* array, index map) on any array with distinct ids, and one call of
\* sift_up, sift_down or transpose on it.  The cursor is handle.val.index,
\* the index of the view a HeapItemRefMut holds; pc names the method running,
\* and last records the method and the cursor before its latest step.

\* One iteration of the loop of sift_up that keeps looping without moving.
sift_up_step_stay(v) ==
    LET p == parent(v.index)
    IN  IF ~p.some THEN [view |-> v, again |-> FALSE]
        ELSE IF Key(At(v.heap, p.val)) < Key(At(v.heap, v.index))
        THEN [view |-> v, again |-> TRUE]
        ELSE [view |-> v, again |-> FALSE]

\* One iteration of the loop of sift_up: the view after it, and whether the
\* loop goes on.
sift_up_step(v) ==
    LET p == parent(v.index)
    IN  IF ~p.some THEN [view |-> v, again |-> FALSE]
        ELSE IF Key(At(v.heap, p.val)) < Key(At(v.heap, v.index))
        THEN LET t == transpose(v, p.val)
             IN  [view |-> t, again |-> ~t.panicked]
        ELSE [view |-> v, again |-> FALSE]

\* One call of sift_down that takes the left child when the children tie.
sift_down_step_tie_left(v) ==
    LET l == left_index(v)
        r == right_index(v)
    IN  IF ~l.some /\ ~r.some THEN [view |-> v, again |-> FALSE]
        ELSE LET max == IF l.some /\ r.some
                        THEN IF Key(At(v.heap, l.val)) >= Key(At(v.heap, r.val))
                             THEN l.val ELSE r.val
                        ELSE IF l.some THEN l.val ELSE r.val
             IN  IF Key(At(v.heap, v.index)) < Key(At(v.heap, max))
                 THEN LET t == transpose(v, max)
                      IN  [view |-> t, again |-> ~t.panicked]
                 ELSE [view |-> v, again |-> FALSE]

\* One call of sift_down up to its recursive call: the view after it, and
\* whether it calls itself again.
sift_down_step(v) ==
    LET l == left_index(v)
        r == right_index(v)
    IN  IF ~l.some /\ ~r.some THEN [view |-> v, again |-> FALSE]
        ELSE LET max == IF l.some /\ r.some
                        THEN IF Key(At(v.heap, l.val)) > Key(At(v.heap, r.val))
                             THEN l.val ELSE r.val
                        ELSE IF l.some THEN l.val ELSE r.val
             IN  IF Key(At(v.heap, v.index)) < Key(At(v.heap, max))
                 THEN LET t == transpose(v, max)
                      IN  [view |-> t, again |-> ~t.panicked]
                 ELSE [view |-> v, again |-> FALSE]

\* Arrays of up to MaxSift items with distinct ids and any keys.
SiftInputs ==
    UNION {{[i \in 1..k |-> [id |-> i, key |-> ks[i]]] :
                ks \in [1..k -> 0..MaxSiftKey]} :
           k \in 1..MaxSift}

cursor == handle.val.index

SetView(v) ==
    /\ Install(v)
    /\ handle' = Some([handle.val EXCEPT !.index = v.index])

InitSift ==
    /\ input \in SiftInputs
    /\ heap = input
    /\ index_map = CollectMap(input)
    /\ panicked = FALSE
    /\ \E id \in IdsPresent(input) :
          handle = get_mut(input, CollectMap(input), id)
    /\ last = Built
    /\ out = << >>
    /\ pc \in {"sift_up", "sift_down", "transpose"}

SiftUpStep ==
    /\ pc = "sift_up" /\ ~panicked
    /\ LET r == sift_up_step(View(cursor, heap, index_map)) IN
          /\ SetView(r.view)
          /\ pc' = IF r.again THEN "sift_up" ELSE "stopped"
    /\ last' = Call("sift_up", Some(cursor), None)
    /\ UNCHANGED <<input, out>>

SiftDownStep ==
    /\ pc = "sift_down" /\ ~panicked
    /\ LET r == sift_down_step(View(cursor, heap, index_map)) IN
          /\ SetView(r.view)
          /\ pc' = IF r.again THEN "sift_down" ELSE "stopped"
    /\ last' = Call("sift_down", Some(cursor), None)
    /\ UNCHANGED <<input, out>>

TransposeStep(dest) ==
    /\ pc = "transpose" /\ ~panicked
    /\ dest < Len(heap)
    /\ SetView(transpose(View(cursor, heap, index_map), dest))
    /\ pc' = "stopped"
    /\ last' = Call("transpose", Some(cursor), Some(dest))
    /\ UNCHANGED <<input, out>>

NextSift ==
    \/ SiftUpStep
    \/ SiftDownStep
    \/ \E dest \in 0..(MaxSift - 1) : TransposeStep(dest)

SpecSift == InitSift /\ [][NextSift]_vars

\* A running call is never suspended for ever.
SpecSiftFair == SpecSift /\ WF_vars(NextSift)

-----------------------------------------------------------------------------
\* The older API of src/src/lib.rs: heapify, push, pop and increase_key.  Its
\* views, transpose, sift_up, sift_down, push and pop are the same code as in
\* heap.rs; heapify and increase_key differ.

\* items.iter().enumerate().map(|(i, val)| (val.key(), i)).collect()
CollectMapByKey(items) ==
    [k \in {Key(items[i]) : i \in DOMAIN items} |->
        CHOOSE p \in 0..(Len(items) - 1) :
            /\ Key(At(items, p)) = k
            /\ \A q \in 0..(Len(items) - 1) : Key(At(items, q)) = k => q <= p]

lib_heapify(items) ==
    HeapifyLoop(View(0, items, CollectMapByKey(items)), (Len(items) \div 2) - 1)

\* HeapViewMut::increase_key on the view of Heap::increase_key (at position
\* 0): the view after the call and the Result returned.
increase_key(h, m, object, new_key) ==
    LET v == View(0, h, m)
    IN  IF Id(object) \notin DOMAIN m THEN [view |-> v, ret |-> "Err"]
        ELSE LET index == m[Id(object)]
                 m1 == MapRemove(m, Id(object))
                 v1 == [v EXCEPT !.index_map = m1]
             IN  IF index >= Len(h) THEN [view |-> Panic(v1), ret |-> "none"]
                 ELSE IF Key(new_key) < Key(At(h, index))
                 THEN [view |-> v1, ret |-> "Err"]
                 ELSE LET v2 == [index |-> index,
                                 heap |-> [h EXCEPT ![index + 1] = new_key],
                                 index_map |-> MapInsert(m1, Id(new_key), index),
                                 panicked |-> FALSE]
                          v3 == sift_up(v2)
                      IN  [view |-> v3,
                           ret |-> IF v3.panicked THEN "none" ELSE "Ok"]

\* Items that are their own key and id (the blanket impl of HeapItem for
\* integers), as in every test of lib.rs.
IntItems == {[id |-> n, key |-> n] : n \in 0..MaxId}

LibInputs ==
    UNION {{[i \in 1..k |-> [id |-> ns[i], key |-> ns[i]]] :
                ns \in {f \in [1..k -> 0..MaxId] : Injective(f)}} :
           k \in 0..MaxHeapify}

InitLib ==
    /\ \E items \in LibInputs : LET v == lib_heapify(items) IN
          /\ heap = v.heap
          /\ index_map = v.index_map
          /\ panicked = v.panicked
    /\ handle = None
    /\ last = Built
    /\ input = << >>
    /\ out = << >>
    /\ pc = "lib"

LibPush(value) ==
    /\ pc = "lib" /\ ~panicked
    /\ len(heap) < MaxLen
    /\ Id(value) \notin IdsPresent(heap)
    /\ Install(push(heap, index_map, value))
    /\ last' = Call("push", Some(value), None)
    /\ UNCHANGED <<handle, input, out, pc>>

LibPop ==
    /\ pc = "lib" /\ ~panicked
    /\ LET r == pop(heap, index_map) IN
          /\ Install(r.view)
          /\ last' = Call("pop", None, r.ret)
    /\ UNCHANGED <<handle, input, out, pc>>

\* increase_key(object, new_key); the id of new_key is not the id of an
\* element other than object.
IncreaseKey(object, new_key) ==
    /\ pc = "lib" /\ ~panicked
    /\ Id(new_key) \notin (IdsPresent(heap) \ {Id(object)})
    /\ LET r == increase_key(heap, index_map, object, new_key) IN
          /\ Install(r.view)
          /\ last' = Call("increase_key",
                          Some([object |-> object, new_key |-> new_key]),
                          Some(r.ret))
    /\ UNCHANGED <<handle, input, out, pc>>

\* heapify of lib.rs on items whose key is not their id, then pops.
InitLibHeapify ==
    /\ input \in HeapifyInputs
    /\ LET v == lib_heapify(input) IN
          /\ heap = v.heap
          /\ index_map = v.index_map
          /\ panicked = v.panicked
    /\ handle = None
    /\ last = Built
    /\ out = << >>
    /\ pc = "lib"

SpecLibHeapify == InitLibHeapify /\ [][LibPop]_vars

NextLib ==
    \/ \E value \in IntItems : LibPush(value)
    \/ LibPop
    \/ \E object, new_key \in IntItems : IncreaseKey(object, new_key)

SpecLib == InitLib /\ [][NextLib]_vars

-----------------------------------------------------------------------------
\* tests::check_invariants: heap order at every position with a child, and
\* every entry of the index map pointing at an item with that id.

left(h, p) == IF 2 * p + 1 >= Len(h) THEN None ELSE Some(2 * p + 1)

right(h, p) == IF 2 * p + 2 >= Len(h) THEN None ELSE Some(2 * p + 2)

\* HeapView::parent, as the position of the parent view.
view_parent(h, p) == IF p = 0 THEN None ELSE Some(p \div 2)

HeapOrdered(h) ==
    \A i \in 0..(Len(h) - 1) :
        /\ left(h, i).some => Key(At(h, left(h, i).val)) <= Key(At(h, i))
        /\ right(h, i).some => Key(At(h, right(h, i).val)) <= Key(At(h, i))

IndexConsistent(h, m) ==
    \A id \in DOMAIN m : m[id] < Len(h) /\ Id(At(h, m[id])) = id

\* tests::check_invariants: the heap-order assertions, then the assertion on
\* every entry of the index map.
check_invariants(h, m) == HeapOrdered(h) /\ IndexConsistent(h, m)

\* The index bijection as the invariant is stated, which no code of the
\* repository checks: check_invariants walks the entries of the map only,
\* and so passes when a position's id has no entry or two items share an id.
\* IndexCovers: every position's id is in the map and points back to the
\* position.
IndexCovers(h, m) ==
    \A p \in 0..(Len(h) - 1) : Id(At(h, p)) \in DOMAIN m /\ m[Id(At(h, p))] = p

IndexBijection(h, m) ==
    /\ IndexConsistent(h, m)
    /\ IndexCovers(h, m)
    /\ Cardinality(DOMAIN m) = Len(h)

-----------------------------------------------------------------------------
\* C1: whenever no handle is outstanding, every position with a left or right
\* child has a key >= the key of that child.
C1_HeapOrder == (NoHandle /\ ~panicked) => HeapOrdered(heap)

\* C2: whenever no handle is outstanding, no call has panicked and the index
\* map has exactly one entry per array position: every mapped id points at
\* an item with that id, and every position's id maps back to the position.
C2_IndexBijection == ~panicked /\ (NoHandle => IndexBijection(heap, index_map))

\* C3: the item pop returns has a key >= the key of every item that remains.
C3_PopReturnsMax ==
    (last.op = "pop" /\ last.ret.some) =>
        \A p \in 0..(Len(heap) - 1) : Key(At(heap, p)) <= Key(last.ret.val)

C2_Witness ==
    /\ last.op = "release" /\ NoHandle /\ ~panicked
    /\ Id(last.ret.val) # last.arg.val.original_id
    /\ Id(last.ret.val) \in DOMAIN index_map
    /\ index_map[Id(last.ret.val)] # last.arg.val.index
    /\ Len(heap) = MaxLen - 1

-----------------------------------------------------------------------------
KeysOf(s) == [i \in DOMAIN s |-> Key(s[i])]

NonIncreasing(ks) == \A i \in 1..(Len(ks) - 1) : ks[i] >= ks[i + 1]

\* expected.sort(); expected.reverse() of tests::heap_sort, on the keys.
RECURSIVE InsertDesc(_, _)
InsertDesc(ks, k) ==
    IF ks = << >> THEN <<k>>
    ELSE IF k >= Head(ks) THEN <<k>> \o ks
    ELSE <<Head(ks)>> \o InsertDesc(Tail(ks), k)

RECURSIVE SortDesc(_)
SortDesc(ks) ==
    IF ks = << >> THEN << >> ELSE InsertDesc(SortDesc(Tail(ks)), Head(ks))

\* C4: popping a heap built by heapify until it is empty returns every input
\* item exactly once, with keys in non-increasing order.
C4_PopOrder ==
    pc = "done" =>
        /\ ~panicked
        /\ Len(out) = Len(input)
        /\ Range(out) = Range(input)
        /\ NonIncreasing(KeysOf(out))

C4_Witness ==
    /\ pc = "done"
    /\ Len(input) = MaxHeapify
    /\ ~HeapOrdered(input)
    /\ Key(out[1]) > Key(out[Len(out)])
    /\ Range(out) = Range(input)

\* C5: pushing the input one item at a time into an empty heap and popping
\* until it is empty returns the input items in descending key order.
C5_HeapSort ==
    pc = "done" =>
        /\ Range(out) = Range(input)
        /\ KeysOf(out) = SortDesc(KeysOf(input))

\* C6: after heapify, a handle that leaves its item with a key strictly
\* greater than every other key (and an id no other element has) puts the
\* item at position 0 on release; get finds it under its new id, and the
\* original id is no longer mapped if the id changed.
C6_KeyIncrease ==
    (pc = "released" /\
     \A p \in 0..(Len(heap) - 1) :
        Id(At(heap, p)) # Id(last.ret.val) => Key(At(heap, p)) < Key(last.ret.val))
    => /\ ~panicked
       /\ At(heap, 0) = last.ret.val
       /\ get(heap, index_map, Id(last.ret.val)) = Some(last.ret.val)
       /\ Id(last.ret.val) # last.arg.val.original_id
            => last.arg.val.original_id \notin DOMAIN index_map

C6_Witness ==
    /\ pc = "released"
    /\ last.arg.val.index = MaxHeapify - 1
    /\ Id(last.ret.val) # last.arg.val.original_id
    /\ Key(last.ret.val) > last.arg.val.original_key
    /\ \A p \in 0..(Len(heap) - 1) :
         Id(At(heap, p)) # Id(last.ret.val) => Key(At(heap, p)) < Key(last.ret.val)
    /\ At(heap, 0) = last.ret.val

\* C7: a push of an id already present leaves the index map a bijection
\* between the ids present and the array positions.
C7_DuplicatePush == last.op = "push_dup" => IndexBijection(heap, index_map)

\* C8: pop on an empty heap returns nothing and leaves the array and the
\* index map empty.
C8_EmptyPop ==
    (last.op = "pop" /\ last.was_empty) =>
        /\ ~panicked
        /\ last.ret = None
        /\ heap = << >>
        /\ index_map = EmptyMap

C8_Witness ==
    /\ last.op = "pop" /\ last.was_empty
    /\ last.ret = None
    /\ len(heap) = 0

\* C9: with no handle outstanding, get(id) and get_mut(id) return something
\* exactly when an item with that id is in the array; the item get returns
\* has that id and is in the array; for an absent id nothing is returned and
\* the heap is unchanged.
C9_Lookup ==
    [][last'.op \in {"get", "get_mut"} =>
        LET id == last'.arg.val
            present == id \in IdsPresent(heap)
        IN  /\ ~panicked'
            /\ heap' = heap /\ index_map' = index_map
            /\ last'.op = "get" =>
                 /\ last'.ret.some <=> present
                 /\ last'.ret.some =>
                      /\ Id(last'.ret.val) = id
                      /\ \E p \in 0..(Len(heap) - 1) : At(heap, p) = last'.ret.val
                 /\ handle' = handle
            /\ last'.op = "get_mut" =>
                 /\ handle'.some <=> present
                 /\ handle'.some => Id(At(heap, handle'.val.index)) = id]_vars

C9_Witness ==
    /\ last.op = "get" /\ last.ret.some
    /\ index_map[last.arg.val] = MaxLen - 1
    /\ Id(last.ret.val) = last.arg.val

\* C10: on an empty heap, push(x) followed at once by pop returns x, and the
\* heap is empty again: is_empty() holds and the index map has no entry.
C10_RoundTrip ==
    /\ (Len(input) = 1 /\ out = << >> /\ pc = "pushing") => is_empty(heap)
    /\ (Len(input) = 1 /\ pc \in {"popping", "done"} /\ out # << >>) =>
          /\ ~panicked
          /\ out = input
          /\ is_empty(heap)
          /\ index_map = EmptyMap

C10_Witness ==
    /\ Len(input) = 1 /\ pc = "popping"
    /\ out = input
    /\ is_empty(heap)

-----------------------------------------------------------------------------
\* C11 (lib.rs): on a heap that satisfies heap order and index consistency,
\* increase_key(object, new_key) with object's id present and the key of
\* new_key >= the current key of that item returns Ok, leaves heap order and
\* index consistency, has new_key in the heap (at the root when its key
\* exceeds all others), and the old id is no longer present.
C11_IncreaseKey ==
    [][(/\ last'.op = "increase_key"
        /\ check_invariants(heap, index_map)
        /\ Id(last'.arg.val.object) \in DOMAIN index_map
        /\ Key(last'.arg.val.new_key) >=
              Key(At(heap, index_map[Id(last'.arg.val.object)])))
       => LET object == last'.arg.val.object
              new_key == last'.arg.val.new_key
          IN  /\ ~panicked'
              /\ last'.ret = Some("Ok")
              /\ check_invariants(heap', index_map')
              /\ \E p \in 0..(Len(heap') - 1) : At(heap', p) = new_key
              /\ (\A p \in 0..(Len(heap') - 1) :
                      At(heap', p) # new_key => Key(At(heap', p)) < Key(new_key))
                    => At(heap', 0) = new_key
              /\ Id(new_key) # Id(object) =>
                    /\ Id(object) \notin IdsPresent(heap')
                    /\ Id(object) \notin DOMAIN index_map']_vars

\* C12: for every position i of the array, parent of i is nothing when i = 0
\* and (i - 1) / 2 otherwise, for both navigators; so the parent of the left
\* child and of the right child of i is i.
C12_ParentNavigation ==
    \A i \in 0..(Len(heap) - 1) :
        /\ i = 0 => parent(i) = None /\ view_parent(heap, i) = None
        /\ i # 0 => /\ parent(i) = Some((i - 1) \div 2)
                    /\ view_parent(heap, i) = Some((i - 1) \div 2)
        /\ left(heap, i).some =>
              /\ parent(left(heap, i).val) = Some(i)
              /\ view_parent(heap, left(heap, i).val) = Some(i)
        /\ right(heap, i).some =>
              /\ parent(right(heap, i).val) = Some(i)
              /\ view_parent(heap, right(heap, i).val) = Some(i)

\* The positions heapify sifts down, in order: n/2 - 1 down to 0.
HeapifyPositions(n) == [k \in 1..(n \div 2) |-> (n \div 2) - k]

RECURSIVE SiftDownEach(_, _)
SiftDownEach(v, ps) ==
    IF ps = << >> THEN v
    ELSE SiftDownEach(sift_down([v EXCEPT !.index = Head(ps)]), Tail(ps))

\* C13: heapify of items with pairwise distinct ids succeeds and returns a
\* heap holding exactly the input items, heap-ordered at every position, with
\* each item's id mapped to its final position; the array is the input after
\* sifting down the positions n/2 - 1, ..., 0 in that order.
C13_Heapify ==
    (pc = "popping" /\ out = << >>) =>
        /\ ~panicked
        /\ Len(heap) = Len(input)
        /\ Range(heap) = Range(input)
        /\ HeapOrdered(heap)
        /\ IndexBijection(heap, index_map)
        /\ LET v == SiftDownEach(View(0, input, CollectMap(input)),
                                 HeapifyPositions(Len(input)))
           IN  heap = v.heap /\ index_map = v.index_map

C13_Witness ==
    /\ pc = "popping" /\ out = << >>
    /\ Len(input) = MaxHeapify
    /\ heap # input
    /\ Id(At(heap, 0)) = Id(At(input, MaxHeapify - 1))

\* C14: a pop on a non-empty heap that satisfies heap order and index
\* consistency returns the item that was at position 0, shrinks the array by
\* exactly one, removes exactly that item's id from the index map, and leaves
\* heap order and index consistency.
C14_PopStep ==
    [][(/\ pc = "popping" /\ ~panicked /\ ~is_empty(heap)
        /\ check_invariants(heap, index_map))
       => /\ ~panicked'
          /\ out' = Append(out, At(heap, 0))
          /\ Len(heap') = Len(heap) - 1
          /\ Range(heap') = Range(heap) \ {At(heap, 0)}
          /\ DOMAIN index_map' = DOMAIN index_map \ {Id(At(heap, 0))}
          /\ check_invariants(heap', index_map')
          /\ IndexBijection(heap', index_map')]_vars

C14_Witness ==
    /\ pc = "popping" /\ ~panicked
    /\ Len(input) = MaxHeapify /\ Len(out) = 1
    /\ out[1] = At(heapify(input).heap, 0)
    /\ Len(heap) = MaxHeapify - 1
    /\ At(heap, 0) # At(heapify(input).heap, MaxHeapify - 1)
    /\ Id(out[1]) \notin DOMAIN index_map

\* C15 (lib.rs): for every input with pairwise distinct ids, whatever the
\* keys, heapify succeeds and every entry id -> p of the returned index map
\* has the item with that id at position p.
C15_LibHeapifyIndex ==
    last.op = "heapify" => ~panicked /\ IndexConsistent(heap, index_map)

\* C16: a release removes the index-map entry of the original id and inserts
\* one for the item's current id at the same position before any sifting;
\* afterwards the current id maps to the item's final position, the original
\* id is unmapped if it differs from the current id, and if neither the id
\* nor the key was changed the array and the index map are those of before
\* get_mut.
C16_ReleaseRekeying ==
    [][(handle.some /\ handle' = None)
       => LET hd == handle.val
              current == At(heap, hd.index)
              rekeyed == View(hd.index, heap,
                              MapInsert(MapRemove(index_map, hd.original_id),
                                        Id(current), hd.index))
              built == heapify(input)
          IN  /\ ~panicked'
              /\ \E v \in {rekeyed, sift_down(rekeyed), sift_up(rekeyed)} :
                    heap' = v.heap /\ index_map' = v.index_map
              /\ Id(current) \in DOMAIN index_map'
              /\ index_map'[Id(current)] < Len(heap')
              /\ At(heap', index_map'[Id(current)]) = current
              /\ Id(current) # hd.original_id =>
                    hd.original_id \notin DOMAIN index_map'
              /\ (Id(current) = hd.original_id /\ Key(current) = hd.original_key)
                    => /\ heap' = built.heap
                       /\ index_map' = built.index_map]_vars

C16_Witness ==
    /\ pc = "released" /\ last.op = "release" /\ ~panicked
    /\ Id(last.ret.val) # last.arg.val.original_id
    /\ Key(last.ret.val) < last.arg.val.original_key
    /\ last.arg.val.original_id \notin DOMAIN index_map
    /\ Id(last.ret.val) \in DOMAIN index_map
    /\ index_map[Id(last.ret.val)] > last.arg.val.index
    /\ At(heap, index_map[Id(last.ret.val)]) = last.ret.val

\* C17: a release never completes normally leaving two array items with the
\* same id or an index map with fewer entries than array positions; when the
\* holder has set the id to that of another element, the release is fatal.
C17_IdCollision ==
    (last.op = "release" /\ ~panicked) =>
        /\ \A p, q \in 0..(Len(heap) - 1) :
              p # q => Id(At(heap, p)) # Id(At(heap, q))
        /\ Cardinality(DOMAIN index_map) = Len(heap)

-----------------------------------------------------------------------------
\* C18: at a position with both children, a call of sift_down moves to the
\* left child only when the left key is strictly greater than the right key
\* and to the right child otherwise (equal keys included), and it transposes
\* only if the current key is strictly less than the selected child's key.
C18_TieBreak ==
    [][(/\ pc = "sift_down" /\ ~panicked
        /\ 2 * cursor + 2 < Len(heap))
       => LET c == cursor
              l == 2 * cursor + 1
              r == 2 * cursor + 2
              kc == Key(At(heap, c))
              kl == Key(At(heap, l))
              kr == Key(At(heap, r))
          IN  /\ cursor' \in {c, l, r}
              /\ cursor' = l => kl > kr /\ kc < kl
              /\ cursor' = r => kl <= kr /\ kc < kr
              /\ (kl > kr /\ kc < kl) =>
                    cursor' = l /\ heap' = Swap(heap, c, l) /\ pc' = "sift_down"
              /\ (kl <= kr /\ kc < kr) =>
                    cursor' = r /\ heap' = Swap(heap, c, r) /\ pc' = "sift_down"
              /\ ((kl > kr /\ kc >= kl) \/ (kl <= kr /\ kc >= kr)) =>
                    /\ cursor' = c /\ pc' = "stopped"
                    /\ heap' = heap /\ index_map' = index_map]_vars

\* A step that met two children with equal keys, larger than the current
\* key, and went right.
C18_Witness ==
    /\ last.op = "sift_down" /\ ~panicked
    /\ cursor = 2 * last.arg.val + 2
    /\ Key(At(heap, 2 * last.arg.val + 1)) = Key(At(heap, last.arg.val))
    /\ Key(At(heap, cursor)) < Key(At(heap, last.arg.val))

\* C19: on an index-consistent heap, transpose(dest) from cursor c swaps the
\* items at c and dest, sets the index-map entries of exactly those two ids
\* to their new positions, moves the cursor to dest, and leaves every other
\* slot, every other entry and the length unchanged; with dest = c the array
\* and the map are unchanged.
C19_Transpose ==
    [][(pc = "transpose" /\ pc' = "stopped" /\ IndexConsistent(heap, index_map))
       => LET c == cursor
              dest == last'.ret.val
          IN  /\ ~panicked'
              /\ cursor' = dest
              /\ Len(heap') = Len(heap)
              /\ At(heap', c) = At(heap, dest)
              /\ At(heap', dest) = At(heap, c)
              /\ \A p \in 0..(Len(heap) - 1) :
                    p \notin {c, dest} => At(heap', p) = At(heap, p)
              /\ DOMAIN index_map' = DOMAIN index_map
              /\ index_map'[Id(At(heap, c))] = dest
              /\ index_map'[Id(At(heap, dest))] = c
              /\ \A id \in DOMAIN index_map :
                    id \notin {Id(At(heap, c)), Id(At(heap, dest))}
                        => index_map'[id] = index_map[id]
              /\ dest = c => heap' = heap /\ index_map' = index_map]_vars

C19_Witness ==
    /\ last.op = "transpose" /\ pc = "stopped" /\ ~panicked
    /\ last.arg.val = MaxSift - 1 /\ last.ret.val = 1
    /\ cursor = 1
    /\ Len(heap) = MaxSift
    /\ heap = Swap(input, MaxSift - 1, 1)
    /\ heap # input
    /\ IndexBijection(heap, index_map)

\* The position at which the running call started.
start == CollectMap(input)[handle.val.original_id]

\* C20: every step of sift_up that goes on has strictly decreased the cursor,
\* and sift_up stops at position 0; every step of sift_down that goes on has
\* strictly increased the cursor, and sift_down stops when no child position
\* is in bounds; every call stops, and what the stepped call leaves is what
\* sift_up and sift_down, as used by heapify, push, pop and release, return.
C20_Termination ==
    /\ [][/\ pc = "sift_up" =>
                /\ pc' = "sift_up" => cursor' < cursor
                /\ cursor = 0 => pc' = "stopped"
          /\ pc = "sift_down" =>
                /\ pc' = "sift_down" => cursor' > cursor /\ cursor' < Len(heap)
                /\ 2 * cursor + 1 >= Len(heap) => pc' = "stopped"]_vars
    /\ <>(pc = "stopped")
    /\ [](pc = "stopped" =>
            /\ last.op = "sift_up" =>
                  LET v == sift_up(View(start, input, CollectMap(input)))
                  IN  heap = v.heap /\ index_map = v.index_map /\ cursor = v.index
            /\ last.op = "sift_down" =>
                  LET v == sift_down(View(start, input, CollectMap(input)))
                  IN  heap = v.heap /\ index_map = v.index_map /\ cursor = v.index)

\* sift_up that carried the last item of a full array to the root.
C20_Witness ==
    /\ pc = "stopped" /\ last.op = "sift_up" /\ ~panicked
    /\ Len(heap) = MaxSift
    /\ start = MaxSift - 1
    /\ cursor = 0
    /\ Id(At(heap, 0)) = handle.val.original_id

-----------------------------------------------------------------------------
\* C21: with pairwise distinct ids, push adds exactly the pushed item (len
\* + 1), pop removes exactly the returned item (len - 1, nothing on an empty
\* heap), a release only permutes the array, get and get_mut leave it as it
\* is, a write through the handle touches only the handle's position, no item
\* is ever duplicated, and len() always equals the number of index-map
\* entries.
C21_Conservation ==
    /\ [](len(heap) = Cardinality(DOMAIN index_map))
    /\ [][/\ ~panicked'
          /\ len(heap') = Cardinality(DOMAIN index_map')
          /\ Cardinality(Range(heap')) = len(heap')
          /\ last'.op = "push" =>
                /\ len(heap') = len(heap) + 1
                /\ Range(heap') = Range(heap) \cup {last'.arg.val}
                /\ last'.arg.val \notin Range(heap)
          /\ last'.op = "pop" =>
                IF is_empty(heap)
                THEN last'.ret = None /\ heap' = heap
                ELSE /\ last'.ret.some
                     /\ last'.ret.val \in Range(heap)
                     /\ len(heap') = len(heap) - 1
                     /\ Range(heap') = Range(heap) \ {last'.ret.val}
          /\ last'.op = "release" =>
                /\ len(heap') = len(heap)
                /\ Range(heap') = Range(heap)
          /\ last'.op \in {"get", "get_mut"} => heap' = heap
          /\ last'.op = "rewrite" =>
                /\ len(heap') = len(heap)
                /\ \A p \in 0..(Len(heap) - 1) :
                      p # handle.val.index => At(heap', p) = At(heap, p)]_vars

\* A pop from a full heap that returned an item smaller than one it left.
C21_Witness ==
    /\ last.op = "pop" /\ last.ret.some /\ ~panicked
    /\ len(heap) = MaxLen - 1
    /\ last.ret.val \notin Range(heap)
    /\ Cardinality(Range(heap)) = MaxLen - 1
    /\ Cardinality(DOMAIN index_map) = MaxLen - 1
    /\ \E p \in 0..(Len(heap) - 1) : Key(At(heap, p)) > Key(last.ret.val)

\* C22 (lib.rs): when increase_key returns Err, because object's id is not
\* in the index map or because the key of new_key is less than the current
\* key of that item, the array and the index map are as before the call.
C22_IncreaseKeyFailure ==
    [][(/\ last'.op = "increase_key"
        /\ last'.ret = Some("Err")
        /\ check_invariants(heap, index_map))
       => /\ ~panicked'
          /\ heap' = heap
          /\ index_map' = index_map]_vars

\* A pop that panics returns nothing.
NoRetOnPanic == ~(last.op = "pop" /\ last.ret.some /\ panicked)

====
